---- MODULE Spec2Model ----
(***************************************************************************)
(* The beaconfqdn dissector of RITA (pkg/beaconfqdn/dissector.go): an      *)
(* unbuffered intake channel, a pool of worker goroutines that each run    *)
(* the uconn aggregation for one hostname entry and classify every row of  *)
(* the result, and the collect / start / close lifecycle around them.      *)
(*                                                                         *)
(* Goroutines are modelled by program counters; a step is one statement of *)
(* the source (a channel operation, a mutex operation, a WaitGroup         *)
(* operation, a callback invocation or return).  The MongoDB aggregation   *)
(* is modelled stage by stage on sequences of documents.  Wall-clock       *)
(* durations (avgRuns, totalTime) are not modelled.                        *)
(***************************************************************************)
EXTENDS Integers, Sequences, FiniteSets, TLC

(***************************************************************************)
(* Bounds of the model.                                                    *)
(***************************************************************************)
MaxWorkers == 2      \* calls of start()
MaxUnits == 2        \* calls of collect()

Workers == 1..MaxWorkers
Units == 1..MaxUnits

(***************************************************************************)
(* Sequence helpers.                                                       *)
(***************************************************************************)
Range(s) == {s[i] : i \in 1..Len(s)}

RECURSIVE SumSeq(_)
SumSeq(s) == IF s = <<>> THEN 0 ELSE Head(s) + SumSeq(Tail(s))

\* {"$reduce": {input: xs, initialValue: [], in: {"$concatArrays": ["$$value", "$$this"]}}}
RECURSIVE ConcatArrays(_)
ConcatArrays(ss) == IF ss = <<>> THEN <<>> ELSE Head(ss) \o ConcatArrays(Tail(ss))

\* {"$anyElementTrue": [xs]}
AnyElementTrue(bs) == \E i \in 1..Len(bs) : bs[i]

\* the distinct values of s, in the order of their first appearance
RECURSIVE Distinct(_)
Distinct(s) ==
    IF s = <<>> THEN <<>>
    ELSE LET r == Distinct(SubSeq(s, 1, Len(s) - 1))
             x == s[Len(s)]
         IN IF x \in Range(r) THEN r ELSE Append(r, x)

(***************************************************************************)
(* The uconn collection: one document per (source, destination) pair with  *)
(* an array dat of per-day buckets.                                        *)
(***************************************************************************)
Day(ts, bytes, count, tbytes, icerts) ==
    [ts |-> ts, bytes |-> bytes, count |-> count, tbytes |-> tbytes, icerts |-> icerts]

Uconn(src, uuid, net, dst, dat) ==
    [src |-> src, src_network_uuid |-> uuid, src_network_name |-> net, dst |-> dst, dat |-> dat]

\* A collection that exercises every branch of the query and of the classifier.
UconnTable ==
    << Uconn("10.0.0.7", "uuid1", "net1", "198.51.100.5",
             << Day(<<1, 2>>, <<10, 10>>, 8, 100, FALSE),
                Day(<<2, 3>>, <<20>>, 7, 50, FALSE) >>),
       Uconn("10.0.0.8", "uuid1", "net1", "198.51.100.5",
             << Day(<<5, 6, 7, 5>>, <<1, 1, 2, 3>>, 25, 7, FALSE) >>),
       Uconn("10.0.0.7", "uuid1", "net1", "198.51.100.6",
             << Day(<<3, 4>>, <<10>>, 10, 30, TRUE) >>),
       Uconn("10.0.0.7", "uuid2", "net2", "198.51.100.5",
             << Day(<<1, 2, 3, 4>>, <<7, 7, 7, 7>>, 21, 28, FALSE) >>),
       Uconn("10.0.0.8", "uuid1", "net1", "198.51.100.6",
             << Day(<<>>, <<>>, 5000, 9000, FALSE) >>),
       Uconn("10.0.0.7", "uuid2", "net2", "198.51.100.6",
             << Day(<<8, 9>>, <<5, 5>>, 20, 10, FALSE) >>),
       Uconn("10.0.0.9", "uuid1", "net1", "198.51.100.5",
             << Day(<<1, 2, 3, 4, 5>>, <<4, 4, 4, 4, 4>>, 15, 20, FALSE) >>) >>

\* entry.DstBSONList (and entry.ResolvedIPs) of the hostname entries drawn
DstLists == { <<"198.51.100.5">>, <<"198.51.100.6">>, <<"198.51.100.5", "198.51.100.6">> }

\* the u-th hostname entry that the caller of collect submits
EntryDst(u) == IF u % 2 = 1 THEN <<"198.51.100.5">> ELSE <<"198.51.100.6">>

(***************************************************************************)
(* uconnFindQuery, stage by stage.  An optional field is a sequence of     *)
(* length at most one: <<v>> holds v, <<>> is a missing field.             *)
(***************************************************************************)
\* {"$match": {"$or": entry.DstBSONList}}
StageMatchDst(coll, DstBSONList) ==
    SelectSeq(coll, LAMBDA d : d.dst \in Range(DstBSONList))

\* the first $project: flatten the per-day arrays of one uconn document
ProjectDat(d) ==
    [src |-> d.src, src_network_uuid |-> d.src_network_uuid,
     src_network_name |-> d.src_network_name,
     ts |-> ConcatArrays([i \in 1..Len(d.dat) |-> d.dat[i].ts]),
     bytes |-> ConcatArrays([i \in 1..Len(d.dat) |-> d.dat[i].bytes]),
     count |-> SumSeq([i \in 1..Len(d.dat) |-> d.dat[i].count]),
     tbytes |-> SumSeq([i \in 1..Len(d.dat) |-> d.dat[i].tbytes]),
     icerts |-> AnyElementTrue([i \in 1..Len(d.dat) |-> d.dat[i].icerts])]

StageProject(docs) == [i \in 1..Len(docs) |-> ProjectDat(docs[i])]

\* the _id of the first $group
GroupId(d) == [src |-> d.src, uuid |-> d.src_network_uuid, network |-> d.src_network_name]

\* {"$group": {_id: {src, uuid, network}, ts: $push, bytes: $push, count: $sum,
\*             tbytes: $sum, icerts: $push}}
StageGroupSrc(docs) ==
    LET ids == Distinct([i \in 1..Len(docs) |-> GroupId(docs[i])])
        Members(id) == SelectSeq(docs, LAMBDA d : GroupId(d) = id)
        Group(id) ==
            LET m == Members(id)
            IN [_id |-> id,
                ts |-> << [i \in 1..Len(m) |-> m[i].ts] >>,
                bytes |-> << [i \in 1..Len(m) |-> m[i].bytes] >>,
                count |-> SumSeq([i \in 1..Len(m) |-> m[i].count]),
                tbytes |-> SumSeq([i \in 1..Len(m) |-> m[i].tbytes]),
                icerts |-> [i \in 1..Len(m) |-> m[i].icerts]]
    IN [k \in 1..Len(ids) |-> Group(ids[k])]

\* the literal of {"$match": {"count": {"$gt": 20}}}
MinConnCount == 20

StageMatchCount(docs) == SelectSeq(docs, LAMBDA d : d.count > MinConnCount)

\* {"$unwind": "$ts"} without preserveNullAndEmptyArrays: a document whose ts
\* is missing or an empty array is dropped
UnwindTsDocNoPreserve(d) ==
    IF d.ts = <<>> THEN <<>>
    ELSE LET a == d.ts[1]
         IN [i \in 1..Len(a) |-> [d EXCEPT !.ts = << a[i] >>]]

\* {"$unwind": {path: "$ts", preserveNullAndEmptyArrays: true}} on one document
UnwindTsDoc(d) ==
    IF d.ts = <<>> THEN << d >>
    ELSE LET a == d.ts[1]
         IN IF a = <<>> THEN << [d EXCEPT !.ts = <<>>] >>
            ELSE [i \in 1..Len(a) |-> [d EXCEPT !.ts = << a[i] >>]]

StageUnwindTs(docs) == ConcatArrays([i \in 1..Len(docs) |-> UnwindTsDoc(docs[i])])

\* {"$push": "$ts"} in the place of $addToSet: every value is kept
PushTs(m) == ConcatArrays([i \in 1..Len(m) |-> m[i].ts])

\* {"$addToSet": "$ts"} over the documents of one group; a missing field adds nothing
AddToSetTs(m) == Distinct(ConcatArrays([i \in 1..Len(m) |-> m[i].ts]))

\* {"$group": {_id: "$_id", ts: $addToSet, bytes: $first, count: $first,
\*             tbytes: $first, icerts: $first}}
StageGroupTs(docs) ==
    LET ids == Distinct([i \in 1..Len(docs) |-> docs[i]._id])
        Members(id) == SelectSeq(docs, LAMBDA d : d._id = id)
        Group(id) ==
            LET m == Members(id)
            IN [_id |-> id,
                ts |-> << AddToSetTs(m) >>,
                bytes |-> m[1].bytes,
                count |-> m[1].count,
                tbytes |-> m[1].tbytes,
                icerts |-> m[1].icerts]
    IN [k \in 1..Len(ids) |-> Group(ids[k])]

\* {"$unwind": {path: "$bytes", preserveNullAndEmptyArrays: true}} on one document
UnwindBytesDoc(d) ==
    IF d.bytes = <<>> THEN << d >>
    ELSE LET a == d.bytes[1]
         IN IF a = <<>> THEN << [d EXCEPT !.bytes = <<>>] >>
            ELSE [i \in 1..Len(a) |-> [d EXCEPT !.bytes = << a[i] >>]]

StageUnwindBytes(docs) == ConcatArrays([i \in 1..Len(docs) |-> UnwindBytesDoc(docs[i])])

\* {"$addToSet": "$bytes"} in the place of $push: equal values are merged
AddToSetBytes(m) == Distinct(ConcatArrays([i \in 1..Len(m) |-> m[i].bytes]))

\* {"$push": "$bytes"} over the documents of one group; a missing field adds nothing
PushBytes(m) == ConcatArrays([i \in 1..Len(m) |-> m[i].bytes])

\* {"$group": {_id: "$_id", ts: $first, bytes: $push, count: $first,
\*             tbytes: $first, icerts: $first}}
StageGroupBytes(docs) ==
    LET ids == Distinct([i \in 1..Len(docs) |-> docs[i]._id])
        Members(id) == SelectSeq(docs, LAMBDA d : d._id = id)
        Group(id) ==
            LET m == Members(id)
            IN [_id |-> id,
                ts |-> m[1].ts,
                bytes |-> << PushBytes(m) >>,
                count |-> m[1].count,
                tbytes |-> m[1].tbytes,
                icerts |-> m[1].icerts]
    IN [k \in 1..Len(ids) |-> Group(ids[k])]

\* the final $project, decoded into indvidualRes
indvidualRes(d) ==
    [Src |-> d._id.src,
     SrcNetworkUUID |-> d._id.uuid,
     SrcNetworkName |-> d._id.network,
     Count |-> d.count,
     Ts |-> IF d.ts = <<>> THEN <<>> ELSE d.ts[1],
     Bytes |-> IF d.bytes = <<>> THEN <<>> ELSE d.bytes[1],
     TBytes |-> d.tbytes,
     ICerts |-> AnyElementTrue(d.icerts)]

StageProjectOut(docs) == [i \in 1..Len(docs) |-> indvidualRes(docs[i])]

\* the pipeline with the count filter put before the $group by source, so
\* that it tests the count of each (source, destination) document
uconnFindQueryFilterFirst(coll, DstBSONList) ==
    LET matched == StageMatchDst(coll, DstBSONList)
        flat == StageProject(matched)
        kept == StageMatchCount(flat)
        bySrc == StageGroupSrc(kept)
        tsOne == StageUnwindTs(StageUnwindTs(bySrc))
        tsSet == StageGroupTs(tsOne)
        bytesOne == StageUnwindBytes(StageUnwindBytes(tsSet))
        bytesAll == StageGroupBytes(bytesOne)
    IN StageProjectOut(bytesAll)

\* Pipe(uconnFindQuery).All(&allResults) on collection coll
uconnFindQuery(coll, DstBSONList) ==
    LET matched == StageMatchDst(coll, DstBSONList)
        flat == StageProject(matched)
        bySrc == StageGroupSrc(flat)
        kept == StageMatchCount(bySrc)
        tsOne == StageUnwindTs(StageUnwindTs(kept))
        tsSet == StageGroupTs(tsOne)
        bytesOne == StageUnwindBytes(StageUnwindBytes(tsSet))
        bytesAll == StageGroupBytes(bytesOne)
    IN StageProjectOut(bytesAll)

(***************************************************************************)
(* The state of one dissector and of the goroutines that use it.           *)
(***************************************************************************)
VARIABLES
    connLimit,      \* d.connLimit: limit for strobe classification
    conf,           \* d.conf: the deployment's configured connection threshold
    uconn,          \* the uconn collection behind d.db
    chanClosed,     \* close(d.dissectChannel) has happened
    chanBuf,        \* the entries buffered in d.dissectChannel
    ustate,         \* per collect call: "new" (not made), "sending" (parked), "returned"
    udst,           \* per collect call: DstBSONList / ResolvedIPs of its entry
    wpc,            \* per worker goroutine: its position in the func of start()
    entry,          \* per worker: the entry of the current loop iteration (0: none)
    allResults,     \* per worker: the rows of allResults not yet iterated
    queried,        \* per entry: for every Pipe(...).All run for it, whether it failed
                    \* and how many rows it left in allResults
    deq,            \* per entry: the workers that received it from the channel
    finished,       \* per entry: how many times a worker ended its row loop
    calls,          \* per entry: the arguments of d.dissectedCallback, in order
    wg,             \* d.dissectWg's counter
    mu,             \* d.mu: the set of its holders (0: the caller of start)
    totAccum,       \* d.totAccum
    totThreads,     \* d.totThreads
    printed,        \* lines "Total for dissector: ..." written
    cpc,            \* the control goroutine: its position in start() or close()
    closedCalls,    \* invocations of d.closedCallback
    closeReturns,   \* returns of close()
    panicMsg        \* "" or the message of the panic that ended the process

vars == << connLimit, conf, uconn, chanClosed, chanBuf, ustate, udst, wpc, entry,
           allResults, queried, deq, finished, calls, wg, mu, totAccum, totThreads,
           printed, cpc, closedCalls, closeReturns, panicMsg >>

\* make(chan *hostname.FqdnInput, 1): a buffered channel
ChanCapOne == 0 + 1

\* make(chan *hostname.FqdnInput): no capacity argument
ChanCap == 0

\* the state newDissector returns, before any call of collect, start or close
NewDissector(limit, thresh, coll) ==
    /\ connLimit = limit
    /\ conf = thresh
    /\ uconn = coll
    /\ chanClosed = FALSE
    /\ chanBuf = <<>>
    /\ ustate = [u \in Units |-> "new"]
    /\ udst = [u \in Units |-> <<>>]
    /\ wpc = [w \in Workers |-> "none"]
    /\ entry = [w \in Workers |-> 0]
    /\ allResults = [w \in Workers |-> <<>>]
    /\ queried = [u \in Units |-> <<>>]
    /\ deq = [u \in Units |-> <<>>]
    /\ finished = [u \in Units |-> 0]
    /\ calls = [u \in Units |-> <<>>]
    /\ wg = 0
    /\ mu = {}
    /\ totAccum = 0
    /\ totThreads = 0
    /\ printed = 0
    /\ cpc = "idle"
    /\ closedCalls = 0
    /\ closeReturns = 0
    /\ panicMsg = ""

\* a dissector with strobe limit 25 over the collection UconnTable
Init == NewDissector(25, MinConnCount, UconnTable)

dataVars == << connLimit, conf, uconn >>
chanVars == << chanClosed, chanBuf >>
unitVars == << ustate, udst >>
workVars == << wpc, entry, allResults >>
histVars == << queried, deq, finished, calls >>
accVars == << totAccum, totThreads, printed >>
ctlVars == << cpc, closedCalls, closeReturns >>

\* no goroutine has panicked: a panic that nothing recovers ends the process
Running == panicMsg = ""

(***************************************************************************)
(* collect: d.dissectChannel <- entry                                      *)
(***************************************************************************)
\* the calls of collect are numbered in the order they are made
NextUnit(u) == ustate[u] = "new" /\ \A v \in Units : v < u => ustate[v] # "new"

\* a send that returns without effect on a closed channel
CollectDropsWhenClosed(u) ==
    /\ Running
    /\ NextUnit(u)
    /\ udst' = [udst EXCEPT ![u] = EntryDst(u)]
    /\ IF chanClosed \/ Len(chanBuf) < ChanCap
       THEN /\ chanBuf' = IF chanClosed THEN chanBuf ELSE Append(chanBuf, u)
            /\ ustate' = [ustate EXCEPT ![u] = "returned"]
       ELSE /\ ustate' = [ustate EXCEPT ![u] = "sending"]
            /\ UNCHANGED chanBuf
    /\ UNCHANGED << dataVars, chanClosed, workVars, histVars, wg, mu, accVars, ctlVars,
                    panicMsg >>

\* the send: it panics on a closed channel, completes at once when the buffer
\* has room, and parks the caller otherwise
Collect(u) ==
    /\ Running
    /\ NextUnit(u)
    /\ IF chanClosed
       THEN /\ panicMsg' = "send on closed channel"
            /\ UNCHANGED << chanBuf, ustate, udst >>
       ELSE /\ udst' = [udst EXCEPT ![u] = EntryDst(u)]
            /\ IF Len(chanBuf) < ChanCap
               THEN /\ chanBuf' = Append(chanBuf, u)
                    /\ ustate' = [ustate EXCEPT ![u] = "returned"]
               ELSE /\ ustate' = [ustate EXCEPT ![u] = "sending"]
                    /\ UNCHANGED chanBuf
            /\ UNCHANGED panicMsg
    /\ UNCHANGED << dataVars, chanClosed, workVars, histVars, wg, mu, accVars, ctlVars >>

\* a sender parked on the channel when it is closed panics
SendPanic(u) ==
    /\ Running
    /\ ustate[u] = "sending"
    /\ chanClosed
    /\ panicMsg' = "send on closed channel"
    /\ UNCHANGED << dataVars, chanVars, unitVars, workVars, histVars, wg, mu, accVars, ctlVars >>

(***************************************************************************)
(* start: the statements before the go statement                           *)
(***************************************************************************)
\* d.dissectWg.Add(1)
StartAdd ==
    /\ Running
    /\ cpc = "idle"
    /\ \E w \in Workers : wpc[w] = "none"
    /\ wg' = wg + 1
    /\ cpc' = "start_lock"
    /\ UNCHANGED << dataVars, chanVars, unitVars, workVars, histVars, mu, accVars,
                    closedCalls, closeReturns, panicMsg >>

\* d.mu.Lock()
StartLock ==
    /\ Running
    /\ cpc = "start_lock"
    /\ mu = {}
    /\ mu' = {0}
    /\ cpc' = "start_count"
    /\ UNCHANGED << dataVars, chanVars, unitVars, workVars, histVars, wg, accVars,
                    closedCalls, closeReturns, panicMsg >>

\* d.totThreads += 1
StartCount ==
    /\ Running
    /\ cpc = "start_count"
    /\ totThreads' = totThreads + 1
    /\ cpc' = "start_unlock"
    /\ UNCHANGED << dataVars, chanVars, unitVars, workVars, histVars, wg, mu, totAccum,
                    printed, closedCalls, closeReturns, panicMsg >>

\* d.mu.Unlock()
StartUnlock ==
    /\ Running
    /\ cpc = "start_unlock"
    /\ mu' = mu \ {0}
    /\ cpc' = "start_go"
    /\ UNCHANGED << dataVars, chanVars, unitVars, workVars, histVars, wg, accVars,
                    closedCalls, closeReturns, panicMsg >>

\* go func() { ... }(): the new goroutine stands at the head of its range loop
StartGo ==
    /\ Running
    /\ cpc = "start_go"
    /\ \E w \in Workers :
        /\ wpc[w] = "none"
        /\ \A v \in Workers : v < w => wpc[v] # "none"
        /\ wpc' = [wpc EXCEPT ![w] = "range"]
    /\ cpc' = "idle"
    /\ UNCHANGED << dataVars, chanVars, unitVars, entry, allResults, histVars, wg, mu,
                    accVars, closedCalls, closeReturns, panicMsg >>

(***************************************************************************)
(* close                                                                   *)
(***************************************************************************)
\* close(d.dissectChannel): closing a closed channel panics
CloseChan ==
    /\ Running
    /\ cpc = "idle"
    /\ IF chanClosed
       THEN /\ panicMsg' = "close of closed channel"
            /\ UNCHANGED << chanClosed, cpc >>
       ELSE /\ chanClosed' = TRUE
            /\ cpc' = "close_wait"
            /\ UNCHANGED panicMsg
    /\ UNCHANGED << dataVars, chanBuf, unitVars, workVars, histVars, wg, mu, accVars,
                    closedCalls, closeReturns >>

\* close with the Wait left out: the callback follows close(d.dissectChannel) at once
CloseWaitNoWait ==
    /\ Running
    /\ cpc = "close_wait"
    /\ cpc' = "close_callback"
    /\ UNCHANGED << dataVars, chanVars, unitVars, workVars, histVars, wg, mu, accVars,
                    closedCalls, closeReturns, panicMsg >>

\* d.dissectWg.Wait() returns
CloseWait ==
    /\ Running
    /\ cpc = "close_wait"
    /\ wg = 0
    /\ cpc' = "close_callback"
    /\ UNCHANGED << dataVars, chanVars, unitVars, workVars, histVars, wg, mu, accVars,
                    closedCalls, closeReturns, panicMsg >>

\* close with the call of d.closedCallback left out
CloseCallbackSkipped ==
    /\ Running
    /\ cpc = "close_callback"
    /\ cpc' = "in_closedCallback"
    /\ UNCHANGED << dataVars, chanVars, unitVars, workVars, histVars, wg, mu, accVars,
                    closedCalls, closeReturns, panicMsg >>

\* d.closedCallback() is invoked
CloseCallback ==
    /\ Running
    /\ cpc = "close_callback"
    /\ closedCalls' = closedCalls + 1
    /\ cpc' = "in_closedCallback"
    /\ UNCHANGED << dataVars, chanVars, unitVars, workVars, histVars, wg, mu, accVars,
                    closeReturns, panicMsg >>

\* d.closedCallback() returns, and close returns
CloseReturn ==
    /\ Running
    /\ cpc = "in_closedCallback"
    /\ closeReturns' = closeReturns + 1
    /\ cpc' = "idle"
    /\ UNCHANGED << dataVars, chanVars, unitVars, workVars, histVars, wg, mu, accVars,
                    closedCalls, panicMsg >>

(***************************************************************************)
(* The goroutine of start()                                                *)
(***************************************************************************)
\* the senders parked on the channel (closing the channel unparks them all)
Senders == IF chanClosed THEN {} ELSE {u \in Units : ustate[u] = "sending"}

\* a receive that leaves the sender parked, so that its entry is received again
WRecvKeepsSender(w) ==
    /\ Running
    /\ wpc[w] = "range"
    /\ \E s \in Senders :
        /\ entry' = [entry EXCEPT ![w] = s]
        /\ deq' = [deq EXCEPT ![s] = Append(@, w)]
    /\ wpc' = [wpc EXCEPT ![w] = "query"]
    /\ UNCHANGED << dataVars, chanVars, unitVars, allResults, queried, finished, calls,
                    wg, mu, accVars, ctlVars, panicMsg >>

\* for entry := range d.dissectChannel: an entry is received, from the buffer
\* (which a parked sender then refills) or, the buffer being empty, from a
\* parked sender itself, whose collect then returns; s = 0 stands for "no
\* sender is parked"
WRecv(w) ==
    /\ Running
    /\ wpc[w] = "range"
    /\ \E s \in (IF Senders = {} THEN {0} ELSE Senders) :
        LET got == IF chanBuf # <<>> THEN Head(chanBuf) ELSE s
        IN /\ got # 0
           /\ entry' = [entry EXCEPT ![w] = got]
           /\ deq' = [deq EXCEPT ![got] = Append(@, w)]
           /\ chanBuf' = IF chanBuf = <<>> THEN chanBuf
                         ELSE IF s = 0 THEN Tail(chanBuf)
                         ELSE Append(Tail(chanBuf), s)
           /\ ustate' = IF s = 0 THEN ustate ELSE [ustate EXCEPT ![s] = "returned"]
    /\ wpc' = [wpc EXCEPT ![w] = "query"]
    /\ UNCHANGED << dataVars, chanClosed, udst, allResults, queried, finished, calls,
                    wg, mu, accVars, ctlVars, panicMsg >>

\* the range loop ends: the channel is closed and empty
WRangeEnd(w) ==
    /\ Running
    /\ wpc[w] = "range"
    /\ chanClosed
    /\ chanBuf = <<>>
    /\ wpc' = [wpc EXCEPT ![w] = "exit_lock"]
    /\ UNCHANGED << dataVars, chanVars, unitVars, entry, allResults, histVars, wg, mu,
                    accVars, ctlVars, panicMsg >>

\* what All(&allResults) leaves in allResults: every row when it succeeds; when
\* it fails, the rows decoded before the one whose fetch failed (none of them
\* when the command itself fails), for nothing in the loop body resets
\* allResults after a failed All
AllOutcomes(rows) ==
    { [failed |-> FALSE, n |-> Len(rows)] } \cup
    { [failed |-> TRUE, n |-> n] : n \in {0} \cup (0..(Len(rows) - 1)) }

\* var allResults []indvidualRes
\* _ = ...Pipe(uconnFindQuery).AllowDiskUse().All(&allResults): the error is
\* discarded and the row loop runs over whatever allResults holds
WQuery(w) ==
    /\ Running
    /\ wpc[w] = "query"
    /\ LET rows == uconnFindQuery(uconn, udst[entry[w]])
       IN \E out \in AllOutcomes(rows) :
            /\ allResults' = [allResults EXCEPT ![w] = SubSeq(rows, 1, out.n)]
            /\ queried' = [queried EXCEPT ![entry[w]] = Append(@, out)]
    /\ wpc' = [wpc EXCEPT ![w] = "rows"]
    /\ UNCHANGED << dataVars, chanVars, unitVars, entry, deq, finished, calls, wg, mu,
                    accVars, ctlVars, panicMsg >>

\* analysisInput := &hostname.FqdnInput{...}: TsList and OrigBytesList are not set
NewAnalysisInput(fqdn, ips, res) ==
    [FQDN |-> fqdn,
     Src |-> [SrcIP |-> res.Src, SrcNetworkUUID |-> res.SrcNetworkUUID,
              SrcNetworkName |-> res.SrcNetworkName],
     ConnectionCount |-> res.Count,
     TotalBytes |-> res.TBytes,
     InvalidCertFlag |-> res.ICerts,
     ResolvedIPs |-> ips,
     TsList |-> <<>>,
     OrigBytesList |-> <<>>]

\* the strobe test with >= for >
IsStrobeGe(analysisInput, limit) == analysisInput.ConnectionCount >= limit

\* if analysisInput.ConnectionCount > d.connLimit
IsStrobe(analysisInput, limit) == analysisInput.ConnectionCount > limit

\* analysisInput.TsList = res.Ts; analysisInput.OrigBytesList = res.Bytes
WithLists(analysisInput, res) ==
    [analysisInput EXCEPT !.TsList = res.Ts, !.OrigBytesList = res.Bytes]

\* the timestamp test with >= 3 for > 3
EnoughTsGe3(analysisInput) == Len(analysisInput.TsList) >= 3

\* the timestamp test with > 4 for > 3
EnoughTsGt4(analysisInput) == Len(analysisInput.TsList) > 4

\* if len(analysisInput.TsList) > 3
EnoughTs(analysisInput) == Len(analysisInput.TsList) > 3

\* the row of this iteration of "for _, res := range allResults"
CurRes(w) == Head(allResults[w])
CurInput(w) == NewAnalysisInput(entry[w], udst[entry[w]], CurRes(w))

\* the strobe branch with the lists set before the test of the connection count
WStrobeWithLists(w) ==
    /\ Running
    /\ wpc[w] = "rows"
    /\ allResults[w] # <<>>
    /\ IsStrobe(CurInput(w), connLimit)
    /\ calls' = [calls EXCEPT ![entry[w]] = Append(@, WithLists(CurInput(w), CurRes(w)))]
    /\ wpc' = [wpc EXCEPT ![w] = "callback"]
    /\ UNCHANGED << dataVars, chanVars, unitVars, entry, allResults, queried, deq,
                    finished, wg, mu, accVars, ctlVars, panicMsg >>

\* the strobe branch with d.dissectedCallback invoked under a lock that all
\* workers share: no call while another worker is inside the callback
WStrobeSerialized(w) ==
    /\ Running
    /\ wpc[w] = "rows"
    /\ allResults[w] # <<>>
    /\ IsStrobe(CurInput(w), connLimit)
    /\ \A v \in Workers : wpc[v] # "callback"
    /\ calls' = [calls EXCEPT ![entry[w]] = Append(@, CurInput(w))]
    /\ wpc' = [wpc EXCEPT ![w] = "callback"]
    /\ UNCHANGED << dataVars, chanVars, unitVars, entry, allResults, queried, deq,
                    finished, wg, mu, accVars, ctlVars, panicMsg >>

\* the strobe branch: d.dissectedCallback(analysisInput) is invoked
WStrobe(w) ==
    /\ Running
    /\ wpc[w] = "rows"
    /\ allResults[w] # <<>>
    /\ IsStrobe(CurInput(w), connLimit)
    /\ calls' = [calls EXCEPT ![entry[w]] = Append(@, CurInput(w))]
    /\ wpc' = [wpc EXCEPT ![w] = "callback"]
    /\ UNCHANGED << dataVars, chanVars, unitVars, entry, allResults, queried, deq,
                    finished, wg, mu, accVars, ctlVars, panicMsg >>

\* the else branch with more than 3 timestamps: d.dissectedCallback is invoked
WBeacon(w) ==
    /\ Running
    /\ wpc[w] = "rows"
    /\ allResults[w] # <<>>
    /\ ~IsStrobe(CurInput(w), connLimit)
    /\ EnoughTs(WithLists(CurInput(w), CurRes(w)))
    /\ calls' = [calls EXCEPT ![entry[w]] = Append(@, WithLists(CurInput(w), CurRes(w)))]
    /\ wpc' = [wpc EXCEPT ![w] = "callback"]
    /\ UNCHANGED << dataVars, chanVars, unitVars, entry, allResults, queried, deq,
                    finished, wg, mu, accVars, ctlVars, panicMsg >>

\* the else branch with 3 timestamps or fewer: the row is dropped
WDiscard(w) ==
    /\ Running
    /\ wpc[w] = "rows"
    /\ allResults[w] # <<>>
    /\ ~IsStrobe(CurInput(w), connLimit)
    /\ ~EnoughTs(WithLists(CurInput(w), CurRes(w)))
    /\ allResults' = [allResults EXCEPT ![w] = Tail(@)]
    /\ UNCHANGED << dataVars, chanVars, unitVars, wpc, entry, histVars, wg, mu,
                    accVars, ctlVars, panicMsg >>

\* d.dissectedCallback returns and the row loop is left for the head of the
\* range loop, as a break after the call would do
WCallbackReturnBreaks(w) ==
    /\ Running
    /\ wpc[w] = "callback"
    /\ allResults' = [allResults EXCEPT ![w] = Tail(@)]
    /\ wpc' = [wpc EXCEPT ![w] = "range"]
    /\ UNCHANGED << dataVars, chanVars, unitVars, entry, histVars, wg, mu,
                    accVars, ctlVars, panicMsg >>

\* d.dissectedCallback returns: on to the next row
WCallbackReturn(w) ==
    /\ Running
    /\ wpc[w] = "callback"
    /\ allResults' = [allResults EXCEPT ![w] = Tail(@)]
    /\ wpc' = [wpc EXCEPT ![w] = "rows"]
    /\ UNCHANGED << dataVars, chanVars, unitVars, entry, histVars, wg, mu,
                    accVars, ctlVars, panicMsg >>

\* the row loop ends and the goroutine leaves the range loop, as a return
\* after the row loop would do
WRowsEndLeaves(w) ==
    /\ Running
    /\ wpc[w] = "rows"
    /\ allResults[w] = <<>>
    /\ finished' = [finished EXCEPT ![entry[w]] = @ + 1]
    /\ entry' = [entry EXCEPT ![w] = 0]
    /\ wpc' = [wpc EXCEPT ![w] = "exit_lock"]
    /\ UNCHANGED << dataVars, chanVars, unitVars, allResults, queried, deq, calls,
                    wg, mu, accVars, ctlVars, panicMsg >>

\* the row loop ends: back to the head of the range loop
WRowsEnd(w) ==
    /\ Running
    /\ wpc[w] = "rows"
    /\ allResults[w] = <<>>
    /\ finished' = [finished EXCEPT ![entry[w]] = @ + 1]
    /\ entry' = [entry EXCEPT ![w] = 0]
    /\ wpc' = [wpc EXCEPT ![w] = "range"]
    /\ UNCHANGED << dataVars, chanVars, unitVars, allResults, queried, deq, calls,
                    wg, mu, accVars, ctlVars, panicMsg >>

\* d.mu.Lock()
WExitLock(w) ==
    /\ Running
    /\ wpc[w] = "exit_lock"
    /\ mu = {}
    /\ mu' = {w}
    /\ wpc' = [wpc EXCEPT ![w] = "exit_count"]
    /\ UNCHANGED << dataVars, chanVars, unitVars, entry, allResults, histVars, wg,
                    accVars, ctlVars, panicMsg >>

\* the exit counter with <= for >= in the test before fmt.Println
WExitCountLe(w) ==
    /\ Running
    /\ wpc[w] = "exit_count"
    /\ totAccum' = totAccum + 1
    /\ printed' = IF totAccum + 1 <= totThreads THEN printed + 1 ELSE printed
    /\ wpc' = [wpc EXCEPT ![w] = "exit_unlock"]
    /\ UNCHANGED << dataVars, chanVars, unitVars, entry, allResults, histVars, wg, mu,
                    totThreads, ctlVars, panicMsg >>

\* d.totAccum += 1; if d.totAccum >= d.totThreads { fmt.Println(...) }
WExitCount(w) ==
    /\ Running
    /\ wpc[w] = "exit_count"
    /\ totAccum' = totAccum + 1
    /\ printed' = IF totAccum + 1 >= totThreads THEN printed + 1 ELSE printed
    /\ wpc' = [wpc EXCEPT ![w] = "exit_unlock"]
    /\ UNCHANGED << dataVars, chanVars, unitVars, entry, allResults, histVars, wg, mu,
                    totThreads, ctlVars, panicMsg >>

\* d.mu.Unlock()
WExitUnlock(w) ==
    /\ Running
    /\ wpc[w] = "exit_unlock"
    /\ mu' = mu \ {w}
    /\ wpc' = [wpc EXCEPT ![w] = "exit_done"]
    /\ UNCHANGED << dataVars, chanVars, unitVars, entry, allResults, histVars, wg,
                    accVars, ctlVars, panicMsg >>

\* the goroutine ends without d.dissectWg.Done()
WDoneWithoutDone(w) ==
    /\ Running
    /\ wpc[w] = "exit_done"
    /\ wpc' = [wpc EXCEPT ![w] = "done"]
    /\ UNCHANGED << dataVars, chanVars, unitVars, entry, allResults, histVars, wg, mu,
                    accVars, ctlVars, panicMsg >>

\* d.dissectWg.Done(): the goroutine ends
WDone(w) ==
    /\ Running
    /\ wpc[w] = "exit_done"
    /\ wg' = wg - 1
    /\ wpc' = [wpc EXCEPT ![w] = "done"]
    /\ UNCHANGED << dataVars, chanVars, unitVars, entry, allResults, histVars, mu,
                    accVars, ctlVars, panicMsg >>

(***************************************************************************)
(* The specification.                                                      *)
(***************************************************************************)
Next ==
    \/ \E u \in Units : Collect(u) \/ SendPanic(u)
    \/ StartAdd \/ StartLock \/ StartCount \/ StartUnlock \/ StartGo
    \/ CloseChan \/ CloseWait \/ CloseCallback \/ CloseReturn
    \/ \E w \in Workers :
        \/ WRecv(w) \/ WRangeEnd(w) \/ WQuery(w)
        \/ WStrobe(w) \/ WBeacon(w) \/ WDiscard(w) \/ WCallbackReturn(w) \/ WRowsEnd(w)
        \/ WExitLock(w) \/ WExitCount(w) \/ WExitUnlock(w) \/ WDone(w)

Spec == Init /\ [][Next]_vars

(***************************************************************************)
(* The same program run by callers that keep to the contract of collect    *)
(* and close (no collect call is made once close has been called, and      *)
(* close is called once), under the scheduling of the Go runtime: a        *)
(* goroutine that can take its next step eventually takes it, and every    *)
(* query and every callback returns.  When collect, start and close are    *)
(* called is left to the callers.                                          *)
(***************************************************************************)
\* a collect call made before close is called
CollectBeforeClose(u) == ~chanClosed /\ Collect(u)

\* the one call of close
CloseChanOnce == ~chanClosed /\ CloseChan

NextLive ==
    \/ \E u \in Units : CollectBeforeClose(u) \/ SendPanic(u)
    \/ StartAdd \/ StartLock \/ StartCount \/ StartUnlock \/ StartGo
    \/ CloseChanOnce \/ CloseWait \/ CloseCallback \/ CloseReturn
    \/ \E w \in Workers :
        \/ WRecv(w) \/ WRangeEnd(w) \/ WQuery(w)
        \/ WStrobe(w) \/ WBeacon(w) \/ WDiscard(w) \/ WCallbackReturn(w) \/ WRowsEnd(w)
        \/ WExitLock(w) \/ WExitCount(w) \/ WExitUnlock(w) \/ WDone(w)

\* the steps a started call of start or close, or a parked collect, goes on to take
FairCallers ==
    /\ WF_vars(StartLock) /\ WF_vars(StartCount) /\ WF_vars(StartUnlock) /\ WF_vars(StartGo)
    /\ WF_vars(CloseWait) /\ WF_vars(CloseCallback) /\ WF_vars(CloseReturn)
    /\ \A u \in Units : WF_vars(SendPanic(u))

\* the steps of the worker goroutines that are the goroutine's own: when the
\* store answers a query and when d.dissectedCallback returns is up to them
FairWorkers ==
    \A w \in Workers :
        /\ WF_vars(WRecv(w)) /\ WF_vars(WRangeEnd(w))
        /\ WF_vars(WStrobe(w)) /\ WF_vars(WBeacon(w)) /\ WF_vars(WDiscard(w))
        /\ WF_vars(WRowsEnd(w))
        /\ WF_vars(WExitLock(w)) /\ WF_vars(WExitCount(w)) /\ WF_vars(WExitUnlock(w))
        /\ WF_vars(WDone(w))

SpecLive == Init /\ [][NextLive]_vars /\ FairCallers /\ FairWorkers

(***************************************************************************)
(* One iteration of the range loop on drawn inputs: the connection limit,  *)
(* the configured threshold, the collection and the entry are drawn from   *)
(* bounded sets, and one worker that has just received the entry runs the  *)
(* query and classifies its rows.                                          *)
(***************************************************************************)
StrobeLimits == {21, 25, 50}

ConnThresholds == {10, MinConnCount}

SrcIds ==
    { [src |-> "10.0.0.7", uuid |-> "uuid1", network |-> "net1"],
      [src |-> "10.0.0.7", uuid |-> "uuid2", network |-> "net2"] }

Days ==
    { Day(<<1, 2, 3>>, <<10, 10, 20>>, 10, 40, FALSE),
      Day(<<3, 4>>, <<10, 30>>, 11, 40, TRUE),
      Day(<<1, 2, 3, 4, 5>>, <<4, 4, 4, 4, 4>>, 15, 20, FALSE),
      Day(<<5, 6, 7, 5>>, <<1, 1, 2, 3>>, 25, 7, FALSE),
      Day(<<>>, <<>>, 5000, 9000, FALSE),
      Day(<<>>, <<>>, 22, 300, TRUE),
      Day(<<1, 2, 3, 4>>, <<7, 7, 7, 7>>, 21, 28, FALSE),
      Day(<<8, 9>>, <<5, 5>>, 20, 10, FALSE) }

UconnPool ==
    { Uconn(id.src, id.uuid, id.network, dst, << day >>) :
        id \in SrcIds, dst \in {"198.51.100.5", "198.51.100.6"}, day \in Days }

\* the collections drawn: UconnTable, and every two documents of the pool
\* for two different (source, destination) pairs
Stores ==
    {UconnTable} \cup
    { p \in [1..2 -> UconnPool] : p[1].dst # p[2].dst \/ GroupId(p[1]) # GroupId(p[2]) }

InitData ==
    \E limit \in StrobeLimits, thresh \in ConnThresholds, coll \in Stores, l \in DstLists :
        /\ connLimit = limit
        /\ conf = thresh
        /\ uconn = coll
        /\ chanClosed = FALSE
        /\ chanBuf = <<>>
        /\ ustate = [u \in Units |-> IF u = 1 THEN "returned" ELSE "new"]
        /\ udst = [u \in Units |-> IF u = 1 THEN l ELSE <<>>]
        /\ wpc = [w \in Workers |-> IF w = 1 THEN "query" ELSE "none"]
        /\ entry = [w \in Workers |-> IF w = 1 THEN 1 ELSE 0]
        /\ allResults = [w \in Workers |-> <<>>]
        /\ queried = [u \in Units |-> <<>>]
        /\ deq = [u \in Units |-> IF u = 1 THEN <<1>> ELSE <<>>]
        /\ finished = [u \in Units |-> 0]
        /\ calls = [u \in Units |-> <<>>]
        /\ wg = 1
        /\ mu = {}
        /\ totAccum = 0
        /\ totThreads = 1
        /\ printed = 0
        /\ cpc = "idle"
        /\ closedCalls = 0
        /\ closeReturns = 0
        /\ panicMsg = ""

NextData ==
    \/ WQuery(1)
    \/ WStrobe(1) \/ WBeacon(1) \/ WDiscard(1) \/ WCallbackReturn(1) \/ WRowsEnd(1)

SpecData == InitData /\ [][NextData]_vars

(***************************************************************************)
(* Properties.                                                             *)
(***************************************************************************)
\* the collect calls that have returned
Accepted == {u \in Units : ustate[u] = "returned"}

\* the worker goroutines that exist
Started == {w \in Workers : wpc[w] # "none"}

\* C1: d.closedCallback is never invoked more than once, close never returns
\* without having invoked it, and once close has returned it has been invoked
\* exactly once, whatever the numbers of entries collected and workers started.
C1_ExactlyOneCompletion ==
    /\ closedCalls <= 1
    /\ closeReturns <= closedCalls
    /\ closeReturns >= 1 => closedCalls = 1

\* C1 witness: close has returned after every worker was started and has
\* ended and every entry was collected and processed.
C1_Witness ==
    /\ closeReturns = 1
    /\ closedCalls = 1
    /\ \A w \in Workers : wpc[w] = "done"
    /\ \A u \in Units : finished[u] = 1

\* no worker is inside d.dissectedCallback, or holds an entry whose rows it
\* has still to query or classify
WorkersQuiet ==
    \A w \in Workers : wpc[w] \notin {"query", "rows", "callback"} /\ entry[w] = 0

\* C2: once d.closedCallback has been invoked no worker is inside
\* d.dissectedCallback or has one still to make, every entry whose collect
\* completed has had its row loop ended, and from then on (so also after close
\* has returned) d.dissectedCallback is never invoked again.
C2_CompletionAfterCallbacks ==
    /\ [](closedCalls >= 1 =>
            /\ WorkersQuiet
            /\ chanBuf = <<>>
            /\ \A u \in Accepted : finished[u] >= 1)
    /\ [][closedCalls >= 1 => calls' = calls]_vars

\* C2 witness: d.closedCallback has been invoked after d.dissectedCallback was
\* invoked for every entry, by two different workers.
C2_Witness ==
    /\ closedCalls = 1
    /\ \A u \in Units : Len(calls[u]) >= 1
    /\ \E u, v \in Units : deq[u] # <<>> /\ deq[v] # <<>> /\ deq[u] # deq[v]

\* C8: the channel never holds an entry (an entry in transit is always that of
\* a parked collect call), a collect call has returned only if a worker has
\* received its entry, and the entries collected whose row loop has not ended
\* are never more than the workers started.
C8_SynchronousHandoff ==
    /\ chanBuf = <<>>
    /\ \A u \in Accepted : deq[u] # <<>>
    /\ Cardinality({u \in Accepted : finished[u] = 0}) <= Cardinality(Started)

\* C8 witness: a collect call is parked while every started worker is busy
\* with an entry received earlier.
C8_Witness ==
    /\ \E u \in Units : ustate[u] = "sending"
    /\ Started # {}
    /\ \A w \in Started : wpc[w] \in {"query", "rows", "callback"}
    /\ Accepted # {}

\* C9: an entry is received at most once, queried at most once and its row
\* loop ended at most once; an entry whose collect returned has been received
\* by exactly one worker, and only that worker holds it; the row loop of an
\* entry follows its one query; and when d.closedCallback is invoked every
\* entry whose collect returned has been queried and its row loop has ended.
C9_ProcessedExactlyOnce ==
    /\ \A u \in Units :
        /\ Len(deq[u]) <= 1
        /\ Len(queried[u]) <= 1
        /\ finished[u] <= Len(queried[u])
        /\ u \in Accepted => Len(deq[u]) = 1
    /\ \A w \in Workers : entry[w] # 0 => deq[entry[w]] = << w >>
    /\ closedCalls >= 1 =>
        \A u \in Accepted : Len(queried[u]) = 1 /\ finished[u] = 1

\* C9 witness: d.closedCallback has been invoked after all entries were
\* collected, the first of them handled by the second worker.
C9_Witness ==
    /\ closedCalls = 1
    /\ Accepted = Units
    /\ deq[1] = << 2 >>
    /\ \A u \in Units : finished[u] = 1 /\ Len(queried[u]) = 1

\* C10: a collect call made on the closed channel panics with "send on closed
\* channel" and its entry is neither accepted nor received, nor is any entry
\* accepted once the channel is closed; a close call made on the closed channel
\* panics with "close of closed channel" without reaching Wait or
\* d.closedCallback, which is never invoked twice; and nothing runs on after a
\* panic.
C10_MisuseIsFatal ==
    /\ [](closedCalls <= 1)
    /\ [][ /\ panicMsg = ""
           /\ \A u \in Units :
                /\ (chanClosed /\ Collect(u)) =>
                      /\ panicMsg' = "send on closed channel"
                      /\ ustate'[u] = "new"
                      /\ deq' = deq
                      /\ chanBuf' = chanBuf
                /\ (chanClosed /\ ustate[u] = "new") => ustate'[u] = "new"
           /\ (chanClosed /\ CloseChan) =>
                /\ panicMsg' = "close of closed channel"
                /\ closedCalls' = closedCalls
                /\ cpc' = "idle"
           /\ (chanClosed /\ cpc = "idle") =>
                cpc' \notin {"close_wait", "close_callback", "in_closedCallback"}
         ]_vars

\* C10 witness: the process has panicked in a collect call made after close
\* had returned.
C10_Witness ==
    /\ panicMsg = "send on closed channel"
    /\ closeReturns = 1
    /\ \A u \in Units : ustate[u] # "sending"

(***************************************************************************)
(* The rows of an entry and the records emitted for them.                  *)
(***************************************************************************)
\* the query of entry u has run and succeeded / has run and failed
QueryOk(u) == queried[u] # <<>> /\ ~queried[u][1].failed
QueryFailed(u) == queried[u] # <<>> /\ queried[u][1].failed

\* the rows All left in allResults for entry u: the first rows of the result
Returned(u) ==
    IF queried[u] = <<>> THEN <<>>
    ELSE SubSeq(uconnFindQuery(uconn, udst[u]), 1, queried[u][1].n)

\* the source identity of a row, as a record passed to d.dissectedCallback carries it
SrcOf(res) ==
    [SrcIP |-> res.Src, SrcNetworkUUID |-> res.SrcNetworkUUID,
     SrcNetworkName |-> res.SrcNetworkName]

\* the invocations of d.dissectedCallback for entry u with the source of row res
CallsFor(u, res) == {i \in 1..Len(calls[u]) : calls[u][i].Src = SrcOf(res)}

\* row res of entry u was passed to d.dissectedCallback exactly once, with
\* timestamps ts and originator bytes bytes
EmittedOnceWith(u, res, ts, bytes) ==
    /\ Cardinality(CallsFor(u, res)) = 1
    /\ \A i \in CallsFor(u, res) :
        /\ calls[u][i].ConnectionCount = res.Count
        /\ calls[u][i].TsList = ts
        /\ calls[u][i].OrigBytesList = bytes

\* C3: every record passed to d.dissectedCallback is built from a row of the
\* entry's result and either has ConnectionCount > connLimit with empty TsList
\* and OrigBytesList, or has ConnectionCount <= connLimit, more than 3
\* timestamps, and the row's Ts and Bytes as its lists; so a row that is
\* neither is never passed.
C3_EmittedStrobeOrBeacon ==
    \A u \in Units : \A i \in 1..Len(calls[u]) :
        \E k \in 1..Len(Returned(u)) :
            LET res == Returned(u)[k]
                r == calls[u][i]
            IN /\ r.Src = SrcOf(res)
               /\ r.ConnectionCount = res.Count
               /\ \/ /\ r.ConnectionCount > connLimit
                     /\ r.TsList = <<>>
                     /\ r.OrigBytesList = <<>>
                  \/ /\ r.ConnectionCount <= connLimit
                     /\ Len(r.TsList) > 3
                     /\ r.TsList = res.Ts
                     /\ r.OrigBytesList = res.Bytes

\* C3 witness: the row loop of an entry with two rows has ended; one row was
\* passed on as a beacon candidate and the other, with exactly 3 timestamps and
\* a count within the limit, was dropped.
C3_Witness ==
    /\ finished[1] = 1
    /\ Len(Returned(1)) = 2
    /\ Len(calls[1]) = 1
    /\ Len(calls[1][1].TsList) > 3
    /\ \E k \in 1..2 : Len(Returned(1)[k].Ts) = 3 /\ Returned(1)[k].Count <= connLimit

\* C4: when the row loop of an entry has ended, every row with Count >
\* connLimit has been passed to d.dissectedCallback exactly once, with empty
\* TsList and OrigBytesList, however many timestamps the row has.
C4_StrobePrecedence ==
    \A u \in Units : finished[u] >= 1 =>
        \A k \in 1..Len(Returned(u)) :
            LET res == Returned(u)[k]
            IN res.Count > connLimit => EmittedOnceWith(u, res, <<>>, <<>>)

\* C4 witness: a row over the limit with 1 to 3 timestamps was emitted.
C4_Witness ==
    /\ finished[1] = 1
    /\ \E k \in 1..Len(Returned(1)) :
        LET res == Returned(1)[k]
        IN /\ res.Count > connLimit
           /\ Len(res.Ts) \in 1..3
           /\ CallsFor(1, res) # {}

\* C5: when the row loop of an entry has ended, a row with Count = connLimit
\* has been passed exactly once with the row's Ts and Bytes when it has more
\* than 3 timestamps, and has not been passed at all otherwise.
C5_LimitIsBeaconBranch ==
    \A u \in Units : finished[u] >= 1 =>
        \A k \in 1..Len(Returned(u)) :
            LET res == Returned(u)[k]
            IN res.Count = connLimit =>
                IF Len(res.Ts) > 3
                THEN EmittedOnceWith(u, res, res.Ts, res.Bytes)
                ELSE CallsFor(u, res) = {}

\* C5 witness: a row with Count = connLimit and more than 3 timestamps was
\* emitted with its timestamps.
C5_Witness ==
    /\ finished[1] = 1
    /\ \E k \in 1..Len(Returned(1)) :
        LET res == Returned(1)[k]
        IN /\ res.Count = connLimit
           /\ Len(res.Ts) > 3
           /\ \E i \in CallsFor(1, res) : calls[1][i].TsList = res.Ts

\* C6: when the row loop of an entry has ended, a row with Count <= connLimit
\* has not been passed to d.dissectedCallback when it has 3 timestamps or
\* fewer, and has been passed exactly once, with exactly its timestamps, when
\* it has 4 or more.
C6_MinimumSamples ==
    \A u \in Units : finished[u] >= 1 =>
        \A k \in 1..Len(Returned(u)) :
            LET res == Returned(u)[k]
            IN res.Count <= connLimit =>
                IF Len(res.Ts) >= 4
                THEN EmittedOnceWith(u, res, res.Ts, res.Bytes)
                ELSE CallsFor(u, res) = {}

\* C6 witness: of two rows under the limit, the one with exactly 3 timestamps
\* was dropped and the one with exactly 4 was emitted.
C6_Witness ==
    /\ finished[1] = 1
    /\ \E j, k \in 1..Len(Returned(1)) :
        LET lo == Returned(1)[j]
            hi == Returned(1)[k]
        IN /\ lo.Count < connLimit /\ Len(lo.Ts) = 3 /\ CallsFor(1, lo) = {}
           /\ hi.Count < connLimit /\ Len(hi.Ts) = 4 /\ CallsFor(1, hi) # {}

(***************************************************************************)
(* The connection counts of the collection, computed document by document. *)
(***************************************************************************)
\* the documents of the collection towards a resolved IP of entry u
MatchedDocs(u) == {i \in 1..Len(uconn) : uconn[i].dst \in Range(udst[u])}

\* the source identities among them
MatchedIds(u) == {GroupId(uconn[i]) : i \in MatchedDocs(u)}

\* the documents of source id among them
DocsOf(u, id) == {i \in MatchedDocs(u) : GroupId(uconn[i]) = id}

RECURSIVE SumOver(_, _)
SumOver(f, S) ==
    IF S = {} THEN 0
    ELSE LET x == CHOOSE y \in S : TRUE IN f[x] + SumOver(f, S \ {x})

\* the connections of one document, over its days
DocCount(d) == SumOver([j \in 1..Len(d.dat) |-> d.dat[j].count], 1..Len(d.dat))

\* the connections of source id towards all resolved IPs of entry u
SummedCount(u, id) == SumOver([i \in 1..Len(uconn) |-> DocCount(uconn[i])], DocsOf(u, id))

\* the distinct timestamps of source id towards all resolved IPs of entry u
TimestampsOf(u, id) ==
    UNION { UNION { Range(uconn[i].dat[j].ts) : j \in 1..Len(uconn[i].dat) } : i \in DocsOf(u, id) }

\* the rows returned for entry u that carry source id
RowsFor(u, id) ==
    LET rows == Returned(u)
    IN {k \in 1..Len(rows) :
          /\ rows[k].Src = id.src
          /\ rows[k].SrcNetworkUUID = id.uuid
          /\ rows[k].SrcNetworkName = id.network}

\* the invocations of d.dissectedCallback for entry u that carry source id
CallsForId(u, id) ==
    {i \in 1..Len(calls[u]) :
        calls[u][i].Src = [SrcIP |-> id.src, SrcNetworkUUID |-> id.uuid,
                           SrcNetworkName |-> id.network]}

\* C7 (as claimed): when the query of an entry succeeded and its row loop has
\* ended, a source has a row exactly when its summed connection count exceeds
\* the configured threshold conf, and a source over that threshold, within the
\* strobe limit and with more than 3 distinct timestamps was emitted exactly
\* once as a beacon candidate with exactly its distinct timestamps.
C7_ConfiguredThreshold ==
    \A u \in Units : (finished[u] >= 1 /\ QueryOk(u)) =>
        \A id \in MatchedIds(u) :
            /\ RowsFor(u, id) # {} <=> SummedCount(u, id) > conf
            /\ ( /\ SummedCount(u, id) > conf
                 /\ SummedCount(u, id) <= connLimit
                 /\ Cardinality(TimestampsOf(u, id)) > 3 )
               => /\ Cardinality(CallsForId(u, id)) = 1
                  /\ \A i \in CallsForId(u, id) :
                        /\ Range(calls[u][i].TsList) = TimestampsOf(u, id)
                        /\ Len(calls[u][i].TsList) = Cardinality(TimestampsOf(u, id))

\* what the query does: the same with the literal 20 for the configured threshold
C7_LiteralThreshold ==
    \A u \in Units : (finished[u] >= 1 /\ QueryOk(u)) =>
        \A id \in MatchedIds(u) :
            /\ RowsFor(u, id) # {} <=> SummedCount(u, id) > 20
            /\ ( /\ SummedCount(u, id) > 20
                 /\ SummedCount(u, id) <= connLimit
                 /\ Cardinality(TimestampsOf(u, id)) > 3 )
               => /\ Cardinality(CallsForId(u, id)) = 1
                  /\ \A i \in CallsForId(u, id) :
                        /\ Range(calls[u][i].TsList) = TimestampsOf(u, id)
                        /\ Len(calls[u][i].TsList) = Cardinality(TimestampsOf(u, id))

(***************************************************************************)
(* A failed query.                                                         *)
(***************************************************************************)
\* C11 (as claimed): an entry whose query failed is handled like one whose
\* query returned no row: its row loop runs over no row and nothing is passed
\* to d.dissectedCallback for it, and the worker that holds it stays in its
\* range loop.
C11_FailedQueryAsZeroRows ==
    /\ \A u \in Units : QueryFailed(u) => calls[u] = <<>>
    /\ \A w \in Workers :
        (entry[w] # 0 /\ QueryFailed(entry[w])) => wpc[w] \in {"rows", "callback"}

(***************************************************************************)
(* Shutdown.                                                               *)
(***************************************************************************)
\* the worker goroutines that have left their range loop
Exiting == {w \in Workers : wpc[w] \in {"exit_lock", "exit_count", "exit_unlock", "exit_done", "done"}}

\* close has returned after d.closedCallback, and every worker started has ended
ShutdownDone ==
    /\ closeReturns = 1
    /\ closedCalls = 1
    /\ \A w \in Started : wpc[w] = "done"

\* a worker has left its range loop only with the channel closed and empty
\* and without an entry in hand
ExitOnlyWhenClosedAndEmpty ==
    \A w \in Exiting : chanClosed /\ chanBuf = <<>> /\ entry[w] = 0

\* every query and every call of d.dissectedCallback eventually returns
QueriesAndCallbacksReturn ==
    \A w \in Workers : []<>(wpc[w] \notin {"query", "callback"})

\* C12 (as claimed): provided every query and every callback returns, whenever
\* close has closed the channel, every worker started ends and close returns
\* after d.closedCallback; and a worker leaves its range loop only with the
\* channel closed and empty.
C12_ShutdownAlwaysCompletes ==
    /\ QueriesAndCallbacksReturn => ((cpc = "close_wait") ~> ShutdownDone)
    /\ []ExitOnlyWhenClosedAndEmpty

\* C12 (amended): provided every query and every callback returns, whenever
\* close has closed the channel while no collect call is parked on it, every
\* worker started ends and close returns after d.closedCallback; and a worker
\* leaves its range loop only with the channel closed and empty.
C12_ShutdownCompletes ==
    /\ QueriesAndCallbacksReturn =>
          ((cpc = "close_wait" /\ \A u \in Units : ustate[u] # "sending") ~> ShutdownDone)
    /\ []ExitOnlyWhenClosedAndEmpty

\* C12 witness: close has closed the channel and waits while a worker is
\* still in a query or a callback for an entry, no collect call being parked.
C12_Witness ==
    /\ cpc = "close_wait"
    /\ \A u \in Units : ustate[u] # "sending"
    /\ \E w \in Workers : wpc[w] \in {"query", "callback"}
    /\ wg > 0

(***************************************************************************)
(* Order of processing.                                                    *)
(***************************************************************************)
\* the entries worker w has received
ReceivedBy(w) == {u \in Units : deq[u] = << w >>}

\* C13: a worker at the head of its range loop holds no entry and no row; when
\* a worker receives an entry, the row loop of every entry it received before
\* has ended; d.dissectedCallback is invoked for an entry only by the worker
\* that holds it; and once the row loop of an entry has ended, no record is
\* passed for it any more.
C13_OneEntryAtATime ==
    /\ [](\A w \in Workers :
            /\ wpc[w] = "range" => entry[w] = 0 /\ allResults[w] = <<>>
            /\ Cardinality({u \in ReceivedBy(w) : finished[u] = 0}) <= 1
            /\ \A u \in ReceivedBy(w) : finished[u] = 0 => entry[w] = u)
    /\ [][\A u \in Units :
            /\ deq'[u] # deq[u] =>
                  \E w \in Workers :
                      /\ deq'[u] = Append(deq[u], w)
                      /\ wpc[w] = "range"
                      /\ \A v \in ReceivedBy(w) : finished[v] >= 1
            /\ calls'[u] # calls[u] =>
                  \E w \in Workers :
                      /\ entry[w] = u /\ wpc[w] = "rows" /\ wpc'[w] = "callback"
                      /\ finished[u] = 0
            /\ finished[u] >= 1 => calls'[u] = calls[u]
         ]_vars

\* C13 witness: a worker is inside d.dissectedCallback for the second entry it
\* received, after a record was passed for the first and its row loop ended.
C13_Witness ==
    \E w \in Workers :
        /\ ReceivedBy(w) = {1, 2}
        /\ finished[1] = 1 /\ calls[1] # <<>>
        /\ entry[w] = 2 /\ wpc[w] = "callback"

\* worker w has a row of its entry to classify
HasRow(w) == wpc[w] = "rows" /\ allResults[w] # <<>>

\* C14: nothing orders the workers among themselves: a worker that has a row
\* to classify can always classify it (invoke d.dissectedCallback with it, or
\* drop it), whichever entries the other workers hold, whether or not they
\* have passed records for them already, and also while another worker is
\* inside d.dissectedCallback.
C14_NoOrderAcrossWorkers ==
    \A w \in Workers :
        (Running /\ HasRow(w)) => ENABLED (WStrobe(w) \/ WBeacon(w) \/ WDiscard(w))

\* C14 witness: the worker that holds the second entry collected has a strobe
\* row to pass on while the worker that holds the first entry is inside
\* d.dissectedCallback, no record having been passed for the second entry yet.
C14_Witness ==
    \E v, w \in Workers :
        /\ v # w
        /\ entry[v] = 1 /\ wpc[v] = "callback"
        /\ entry[w] = 2 /\ HasRow(w) /\ IsStrobe(CurInput(w), connLimit)
        /\ calls[2] = <<>>

\* C14, second order: a record has been passed for the second entry collected
\* and its row loop has ended while the worker that holds the first entry has
\* still to pass the first record for it.
C14_SecondBeforeFirst ==
    \E v \in Workers :
        /\ entry[v] = 1 /\ HasRow(v) /\ calls[1] = <<>>
        /\ calls[2] # <<>> /\ finished[2] = 1
        /\ EnoughTs(WithLists(CurInput(v), CurRes(v)))

\* C14, callbacks at the same time: two workers are inside d.dissectedCallback.
C14_CallbacksOverlap ==
    \E v, w \in Workers : v # w /\ wpc[v] = "callback" /\ wpc[w] = "callback"

(***************************************************************************)
(* A parked collect call.                                                  *)
(***************************************************************************)
\* a worker at the head of its range loop can receive from a parked collect
IdleWorkerReceives ==
    \A w \in Workers : (Running /\ wpc[w] = "range" /\ Senders # {}) => ENABLED WRecv(w)

\* C19 (as claimed): provided every query and every callback returns, a
\* collect call parked on the open channel while a worker has been started
\* eventually returns; and a worker at the head of its range loop can always
\* receive from a parked collect call.
C19_CollectAlwaysReturns ==
    /\ QueriesAndCallbacksReturn =>
          \A u \in Units :
              (ustate[u] = "sending" /\ ~chanClosed /\ Started # {}) ~> (ustate[u] = "returned")
    /\ []IdleWorkerReceives

\* C19 (amended): provided every query and every callback returns, a collect
\* call parked on the open channel while a worker has been started eventually
\* returns, or else the channel is closed while it is parked and the process
\* panics with "send on closed channel"; and a worker at the head of its range
\* loop can always receive from a parked collect call.
C19_CollectReturnsOrPanics ==
    /\ QueriesAndCallbacksReturn =>
          \A u \in Units :
              (ustate[u] = "sending" /\ ~chanClosed /\ Started # {})
                  ~> (ustate[u] = "returned" \/ panicMsg = "send on closed channel")
    /\ []IdleWorkerReceives

\* C19 witness: the second collect call is parked on the open channel while
\* every worker started waits for the store or for d.dissectedCallback.
C19_Witness ==
    /\ ustate[2] = "sending"
    /\ ~chanClosed
    /\ Started # {}
    /\ \A w \in Started : wpc[w] \in {"query", "callback"}

(***************************************************************************)
(* The exit counter.                                                       *)
(***************************************************************************)
\* close is between its close(d.dissectChannel) and its return
InClose == cpc \in {"close_wait", "close_callback", "in_closedCallback"}

\* C20: d.mu has at most one holder; totAccum never exceeds totThreads;
\* totAccum changes only by one, in a step of a worker that holds d.mu, and
\* totThreads only in a step of start holding d.mu; the diagnostic is written
\* only in the step that makes totAccum equal to totThreads; until the first
\* close has returned (every start so far having come before it) it is written
\* at most once, and exactly once by the time d.closedCallback is invoked if a
\* worker was started; and the step that changes totAccum passes no record,
\* and neither invokes d.closedCallback nor changes the WaitGroup.
C20_ExitCounter ==
    /\ [](/\ Cardinality(mu) <= 1
          /\ totAccum <= totThreads
          /\ closeReturns = 0 => printed <= 1
          /\ ~chanClosed => totAccum = 0 /\ printed = 0
          /\ (closeReturns = 0 /\ cpc \in {"close_callback", "in_closedCallback"}) =>
                /\ totAccum = totThreads
                /\ printed = IF totThreads >= 1 THEN 1 ELSE 0)
    /\ [][/\ totAccum' # totAccum =>
                /\ totAccum' = totAccum + 1
                /\ \E w \in Workers : mu = {w} /\ mu' = {w} /\ wpc[w] = "exit_count"
                /\ calls' = calls /\ closedCalls' = closedCalls /\ wg' = wg
          /\ totThreads' # totThreads =>
                totThreads' = totThreads + 1 /\ mu = {0} /\ mu' = {0}
          /\ printed' # printed =>
                /\ printed' = printed + 1
                /\ totAccum' = totAccum + 1
                /\ totAccum' = totThreads
         ]_vars

\* C20 witness: d.closedCallback is invoked after two workers were started
\* and have ended, the diagnostic having been written once.
C20_Witness ==
    /\ closedCalls = 1 /\ closeReturns = 0
    /\ totThreads = 2 /\ totAccum = 2
    /\ printed = 1

(***************************************************************************)
(* The rows of the query against the collection, document by document.     *)
(***************************************************************************)
\* the source identity of a row
IdOf(res) == [src |-> res.Src, uuid |-> res.SrcNetworkUUID, network |-> res.SrcNetworkName]

\* the (document, day) pairs of source id towards the resolved IPs of entry u
DaysOf(u, id) == UNION { {<<i, j>> : j \in 1..Len(uconn[i].dat)} : i \in DocsOf(u, id) }

RECURSIVE SumDays(_, _)
SumDays(F(_), S) ==
    IF S = {} THEN 0
    ELSE LET p == CHOOSE q \in S : TRUE IN F(uconn[p[1]].dat[p[2]]) + SumDays(F, S \ {p})

\* how many times x occurs in s
CountIn(s, x) == Cardinality({i \in 1..Len(s) : s[i] = x})

\* the timestamps stored for source id, counted with their repetitions
RawTsCount(u, id) == LET F(day) == Len(day.ts) IN SumDays(F, DaysOf(u, id))

\* the originator byte counts stored for source id: how many, and how many equal to x
RawBytesCount(u, id) == LET F(day) == Len(day.bytes) IN SumDays(F, DaysOf(u, id))
RawBytesEqual(u, id, x) == LET F(day) == CountIn(day.bytes, x) IN SumDays(F, DaysOf(u, id))

\* the byte totals of source id, and whether any of its days has an invalid certificate
SummedTBytes(u, id) == LET F(day) == day.tbytes IN SumDays(F, DaysOf(u, id))
AnyICert(u, id) == \E p \in DaysOf(u, id) : uconn[p[1]].dat[p[2]].icerts

\* C15: the Ts of every row left in allResults has no value twice and holds
\* exactly the distinct timestamps stored for the row's source towards the
\* resolved IPs of the entry; so the TsList of a record passed to
\* d.dissectedCallback has no value twice.
C15_TimestampsDeduplicated ==
    \A u \in Units :
        /\ LET rows == Returned(u)
           IN \A k \in 1..Len(rows) :
                /\ Cardinality(Range(rows[k].Ts)) = Len(rows[k].Ts)
                /\ Range(rows[k].Ts) = TimestampsOf(u, IdOf(rows[k]))
        /\ \A i \in 1..Len(calls[u]) :
            Cardinality(Range(calls[u][i].TsList)) = Len(calls[u][i].TsList)

\* C15 witness: a record was passed as a beacon candidate for a source whose
\* stored timestamps repeat a value.
C15_Witness ==
    /\ finished[1] = 1
    /\ \E k \in 1..Len(Returned(1)) :
        LET res == Returned(1)[k]
        IN /\ RawTsCount(1, IdOf(res)) > Len(res.Ts)
           /\ \E i \in CallsFor(1, res) : calls[1][i].TsList = res.Ts /\ Len(res.Ts) > 3

\* C16: the Bytes of every row left in allResults holds every originator byte
\* count stored for the row's source towards the resolved IPs of the entry, as
\* many times as it is stored: as many entries as are stored, and each value as
\* often as it is stored.
C16_BytesKeptAsMultiset ==
    \A u \in Units :
        LET rows == Returned(u)
        IN \A k \in 1..Len(rows) :
             /\ Len(rows[k].Bytes) = RawBytesCount(u, IdOf(rows[k]))
             /\ \A x \in Range(rows[k].Bytes) :
                   CountIn(rows[k].Bytes, x) = RawBytesEqual(u, IdOf(rows[k]), x)

\* C16 witness: a row of a source with documents towards two resolved IPs that
\* store the same byte count, whose Bytes holds that value at least twice,
\* and whose timestamps were deduplicated.
C16_Witness ==
    /\ queried[1] # <<>>
    /\ \E k \in 1..Len(Returned(1)) :
        LET res == Returned(1)[k]
        IN /\ Cardinality(DocsOf(1, IdOf(res))) = 2
           /\ \E x \in Range(res.Bytes) :
                /\ \A i \in DocsOf(1, IdOf(res)) : x \in Range(uconn[i].dat[1].bytes)
                /\ CountIn(res.Bytes, x) >= 2
           /\ RawTsCount(1, IdOf(res)) > Len(res.Ts)

\* C17: the rows left in allResults carry pairwise different source
\* identities; the Count, TBytes and ICerts of a row are the sum of the counts,
\* the sum of the byte totals and the disjunction of the certificate flags of
\* all days of all documents of its source towards the resolved IPs of the
\* entry; and when the query succeeded, a source has a row exactly when that
\* summed count exceeds 20.
C17_OneRowPerSourceWithSums ==
    \A u \in Units :
        LET rows == Returned(u)
        IN /\ \A j, k \in 1..Len(rows) : j # k => IdOf(rows[j]) # IdOf(rows[k])
           /\ \A k \in 1..Len(rows) :
                /\ IdOf(rows[k]) \in MatchedIds(u)
                /\ rows[k].Count = SummedCount(u, IdOf(rows[k]))
                /\ rows[k].TBytes = SummedTBytes(u, IdOf(rows[k]))
                /\ rows[k].ICerts = AnyICert(u, IdOf(rows[k]))
           /\ QueryOk(u) =>
                \A id \in MatchedIds(u) :
                    (\E k \in 1..Len(rows) : IdOf(rows[k]) = id) <=> SummedCount(u, id) > 20

\* C17 witness: a row of a source that has documents towards two resolved IPs,
\* none of them with more than 20 connections.
C17_Witness ==
    /\ QueryOk(1)
    /\ \E k \in 1..Len(Returned(1)) :
        LET res == Returned(1)[k]
        IN /\ Cardinality(DocsOf(1, IdOf(res))) = 2
           /\ \A i \in DocsOf(1, IdOf(res)) : DocCount(uconn[i]) <= 20

\* C18: when the query of an entry succeeded and its row loop has ended, a
\* source that stores no timestamp towards the resolved IPs of the entry and
\* whose summed count exceeds 20 has exactly one row, with empty Ts and with
\* that count, and a record was passed for it exactly once if the count
\* exceeds connLimit and not at all otherwise.
C18_EmptyArraysKept ==
    \A u \in Units : (finished[u] >= 1 /\ QueryOk(u)) =>
        \A id \in MatchedIds(u) :
            (TimestampsOf(u, id) = {} /\ SummedCount(u, id) > 20) =>
                /\ LET rows == Returned(u)
                       ks == {k \in 1..Len(rows) : IdOf(rows[k]) = id}
                   IN /\ Cardinality(ks) = 1
                      /\ \A k \in ks : rows[k].Ts = <<>> /\ rows[k].Count = SummedCount(u, id)
                /\ Cardinality(CallsForId(u, id)) =
                      IF SummedCount(u, id) > connLimit THEN 1 ELSE 0

\* C18 witness: of two sources without timestamps, the one over connLimit was
\* passed on and the one within connLimit was not.
C18_Witness ==
    /\ finished[1] = 1 /\ QueryOk(1)
    /\ \E a, b \in MatchedIds(1) :
        /\ TimestampsOf(1, a) = {} /\ SummedCount(1, a) > connLimit
        /\ CallsForId(1, a) # {}
        /\ TimestampsOf(1, b) = {} /\ SummedCount(1, b) > 20 /\ SummedCount(1, b) <= connLimit
        /\ RowsFor(1, b) # {} /\ CallsForId(1, b) = {}

====
